---- MODULE Spec2Model ----
(***************************************************************************)
(* The diff classifiers of the DiffViewer component.                       *)
(*                                                                         *)
(* A text is a sequence of one-character strings.  The line diff primitive *)
(* (Diff.diffLines of the `diff` package) is an external collaborator: it  *)
(* is modelled by what it returns, a sequence of parts (runs), each a      *)
(* record [value, added, removed].  The classifiers are modelled           *)
(* iteration by iteration: one action per branch of the loop body.         *)
(***************************************************************************)
EXTENDS Integers, Sequences, FiniteSets, TLC

VARIABLES
    variant,    \* which DiffViewer variant runs
    original,   \* the original (left) text
    modified,   \* the modified (right) text
    pc,         \* "start" | "loop" | "done"
    parts,      \* what the diff primitive returned
    diffCalls,  \* number of calls of the diff primitive
    locals,     \* the local variables of the running classifier
    result,     \* the value the classifier returned
    args,           \* the arguments of the helper function that runs
    originalText,   \* React state of the Monaco variant: the original text
    modifiedText,   \* React state of the Monaco variant: the modified text
    originalModel,  \* the value of the Monaco text model of the original side
    modifiedModel,  \* the value of the Monaco text model of the modified side
    timeoutRef,     \* the pending debounce timer of MonacoDiff, or NoTimeout
    mounted,        \* TRUE once onMount has created the text models
    lastInput,      \* per side, the last thing the user did to the pane
    originalLang,   \* the language detected for the original text
    modifiedLang,   \* the language detected for the modified text
    stickyLanguage, \* React state of MonacoDiff: the language of the editor
    language,       \* React state: the language selected for highlighting
    viewMode        \* React state of the unified variant: "split" | "unified"

\* The state of the Monaco variant (DiffViewer with MonacoDiff).
monacoVars == <<originalText, modifiedText, originalModel, modifiedModel,
                timeoutRef, mounted, lastInput, originalLang, modifiedLang,
                stickyLanguage>>

\* The display settings of the variants that highlight with Prism.
viewVars == <<language, viewMode>>

vars == <<variant, original, modified, pc, parts, diffCalls, locals, result,
          args, monacoVars, viewVars>>

\* ------------------------------------------------------------------ bounds

\* Texts hold at most MaxLines lines.
MaxLines == 3

\* The diff primitive returns at most MaxRuns runs where any run sequence is
\* considered.
MaxRuns == 3

\* ------------------------------------------------------------------ texts

LF == "\n"
CR == "\r"

\* The contents a line may have.
LineContents == { <<>>, <<"a">> }

\* The line terminators a text may use.
Eols == { <<LF>>, <<CR, LF>> }

RECURSIVE Concat(_)
\* Array.prototype.join(''): the concatenation of a sequence of texts.
Concat(ss) == IF Len(ss) = 0 THEN <<>> ELSE Head(ss) \o Concat(Tail(ss))

RECURSIVE JoinLines(_, _)
\* The lines, each but the last followed by the terminator eol.
JoinLines(ls, eol) ==
    IF Len(ls) = 0 THEN <<>>
    ELSE IF Len(ls) = 1 THEN ls[1]
    ELSE ls[1] \o eol \o JoinLines(Tail(ls), eol)

\* The texts the user may type or paste: up to MaxLines lines separated by one
\* kind of terminator, the last line terminated or not.
Texts ==
    UNION { { JoinLines(ls, eol) \o t :
                ls \in UNION { [1..n -> LineContents] : n \in 0..MaxLines },
                t \in { <<>>, eol } } : eol \in Eols }

RECURSIVE ReplaceCRLF(_)
\* value.replace(/\r\n/g, '\n')
ReplaceCRLF(s) ==
    IF Len(s) = 0 THEN <<>>
    ELSE IF Len(s) >= 2 /\ s[1] = CR /\ s[2] = LF
         THEN <<LF>> \o ReplaceCRLF(SubSeq(s, 3, Len(s)))
         ELSE <<s[1]>> \o ReplaceCRLF(Tail(s))

\* The index of the first LF of s, 0 if it has none.
IndexOfLF(s) ==
    IF \E k \in 1..Len(s) : s[k] = LF
    THEN CHOOSE k \in 1..Len(s) : s[k] = LF /\ \A j \in 1..(k - 1) : s[j] # LF
    ELSE 0

RECURSIVE Split(_)
\* String.prototype.split('\n'): the empty text gives one empty segment.
Split(s) ==
    LET k == IndexOfLF(s)
    IN  IF k = 0 THEN <<s>>
        ELSE <<SubSeq(s, 1, k - 1)>> \o Split(SubSeq(s, k + 1, Len(s)))

\* splitIntoLines that drops every empty segment instead of the last one.
splitIntoLinesNoBlank(value) ==
    IF value = <<>> THEN <<>>
    ELSE LET NonEmpty(seg) == seg # <<>>
         IN  SelectSeq(Split(ReplaceCRLF(value)), NonEmpty)

splitIntoLines(value) ==
    IF value = <<>> THEN <<>>
    ELSE LET segments == Split(ReplaceCRLF(value))
         IN  IF Len(segments) > 1 /\ segments[Len(segments)] = <<>>
             THEN SubSeq(segments, 1, Len(segments) - 1)
             ELSE segments

\* -------------------------------------------------- the line diff primitive

RECURSIVE Tokenize(_)
\* The line tokens of a text, each with its terminator; the last line may have
\* none, and the empty text has no token.
Tokenize(s) ==
    LET k == IndexOfLF(s)
    IN  IF Len(s) = 0 THEN <<>>
        ELSE IF k = 0 THEN <<s>>
        ELSE <<SubSeq(s, 1, k)>> \o Tokenize(SubSeq(s, k + 1, Len(s)))

RECURSIVE Scripts(_, _, _, _, _)
\* The edit scripts that turn tokens A[i..] into B[j..]: sequences of "e"
\* (common token), "r" (token of A only), "a" (token of B only), with the
\* removals of a change block before its insertions (last is the previous
\* operation).
Scripts(A, B, i, j, last) ==
    IF i > Len(A) /\ j > Len(B) THEN { <<>> }
    ELSE
      (IF i <= Len(A) /\ j <= Len(B) /\ A[i] = B[j]
       THEN { <<"e">> \o s : s \in Scripts(A, B, i + 1, j + 1, "e") } ELSE {})
      \cup
      (IF i <= Len(A) /\ last # "a"
       THEN { <<"r">> \o s : s \in Scripts(A, B, i + 1, j, "r") } ELSE {})
      \cup
      (IF j <= Len(B)
       THEN { <<"a">> \o s : s \in Scripts(A, B, i, j + 1, "a") } ELSE {})

\* The number of edits (removals and insertions) of a script.
Edits(s) == Cardinality({ k \in 1..Len(s) : s[k] # "e" })

\* The shortest edit scripts from A to B.
ShortestScripts(A, B) ==
    LET all == Scripts(A, B, 1, 1, "e")
    IN  { s \in all : \A t \in all : Edits(s) <= Edits(t) }

Change(value, op) == [value |-> value, added |-> op = "a", removed |-> op = "r"]

RECURSIVE BuildValues(_, _, _, _, _)
\* The parts of a script: each maximal run of one operation becomes one part
\* whose value joins the run's tokens.
BuildValues(s, A, B, i, j) ==
    IF Len(s) = 0 THEN <<>>
    ELSE
      LET op == s[1]
          n  == IF \E k \in 1..Len(s) : s[k] # op
                THEN (CHOOSE k \in 1..Len(s) :
                          s[k] # op /\ \A m \in 1..(k - 1) : s[m] = op) - 1
                ELSE Len(s)
          value == IF op = "a" THEN Concat(SubSeq(B, j, j + n - 1))
                   ELSE Concat(SubSeq(A, i, i + n - 1))
          i2 == IF op = "a" THEN i ELSE i + n
          j2 == IF op = "r" THEN j ELSE j + n
      IN  <<Change(value, op)>> \o BuildValues(SubSeq(s, n + 1, Len(s)), A, B, i2, j2)

\* Diff.diffLines(oldStr, newStr): a shortest edit script over the line tokens.
\* Which of several shortest scripts the library returns is left open.  Two
\* texts with the same tokens (the empty texts among them) give one unchanged
\* part holding the whole text.
DiffLines(oldStr, newStr) ==
    LET A == Tokenize(oldStr)
        B == Tokenize(newStr)
    IN  IF A = B THEN { <<Change(newStr, "e")>> }
        ELSE { BuildValues(s, A, B, 1, 1) : s \in ShortestScripts(A, B) }

\* ------------------------------------------------------------- computeDiff

Null == <<>>          \* lineNumber: null
Num(n) == <<n>>       \* lineNumber: the number n

Max(x, y) == IF x >= y THEN x ELSE y
Min(x, y) == IF x <= y THEN x ELSE y

\* NumberedLines with the line number never advanced.
NumberedLinesNoIncrement(lines, type, start) ==
    [k \in 1..Len(lines) |->
        [content |-> lines[k], type |-> type, lineNumber |-> Num(start)]]

\* lines.forEach(line => push({content: line, type, lineNumber: start++}))
NumberedLines(lines, type, start) ==
    [k \in 1..Len(lines) |->
        [content |-> lines[k], type |-> type, lineNumber |-> Num(start + k - 1)]]

\* PlaceholderLines that pushes a single placeholder whatever n is.
PlaceholderLinesOne(n, type) ==
    IF n = 0 THEN <<>>
    ELSE <<[content |-> <<>>, type |-> type, lineNumber |-> Null]>>

\* n times push({content: '', type, lineNumber: null})
PlaceholderLines(n, type) ==
    [k \in 1..n |-> [content |-> <<>>, type |-> type, lineNumber |-> Null]]

NoLocals == [index |-> 0]
NoResult == [returned |-> FALSE]

\* No helper function runs.
NoArgs == <<>>

\* No debounce timer is pending.
NoTimeout == [side |-> "none", value |-> ""]

\* The two panes.
Sides == { "original", "modified" }

\* The Monaco variant as React constructs it: both text states are '' and
\* the diff editor has not mounted yet, so no text model exists and no timer
\* was ever set.
MonacoInit ==
    /\ originalText = ""
    /\ modifiedText = ""
    /\ originalModel = ""
    /\ modifiedModel = ""
    /\ timeoutRef = NoTimeout
    /\ mounted = FALSE
    /\ lastInput = [s \in Sides |-> "none"]
    /\ originalLang = "plaintext"
    /\ modifiedLang = "plaintext"
    /\ stickyLanguage = "plaintext"

\* The display settings as React constructs them.
ViewInit ==
    /\ language = "javascript"
    /\ viewMode = "split"

\* BothEmpty with the second test inverted: !original && modified.
BothEmptyInverted(o, m) == o = <<>> /\ m # <<>>

\* if (!original && !modified)
BothEmpty(o, m) == o = <<>> /\ m = <<>>

\* The locals of computeDiff as the loop starts.
ComputeDiffLocals ==
    [index |-> 0, originalLines |-> <<>>, modifiedLines |-> <<>>,
     originalLineNumber |-> 1, modifiedLineNumber |-> 1,
     additions |-> 0, deletions |-> 0, modifications |-> 0]

\* IsPairAt without the test that the next part is added.
IsPairAtAnyNext(ps, index) ==
    /\ ps[index + 1].removed
    /\ index + 1 < Len(ps)

\* part.removed && index + 1 < parts.length && parts[index + 1]?.added
\* (index counts from 0, the parts from 1)
IsPairAt(ps, index) ==
    /\ ps[index + 1].removed
    /\ index + 1 < Len(ps)
    /\ ps[index + 2].added

\* PairCount with the smaller of the two lengths.
PairCountMin(r, a) == Max(Min(r, a), 1)

\* Math.max(removedLines.length, addedLines.length, 1)
PairCount(r, a) == Max(Max(r, a), 1)

\* ComputeDiffPairStep pairing line k with line k and leaving the lines beyond
\* the shorter run removed or added, each facing a placeholder.
ComputeDiffPairStepMin(l, part, nextPart) ==
    LET removedLines == splitIntoLines(part.value)
        addedLines == splitIntoLines(nextPart.value)
        r == Len(removedLines)
        a == Len(addedLines)
        m == Min(r, a)
    IN  [l EXCEPT
          !.originalLines = @ \o [k \in 1..Max(r, a) |->
                IF k <= r
                THEN [content |-> removedLines[k],
                      type |-> IF k <= m THEN "modified" ELSE "removed",
                      lineNumber |-> Num(l.originalLineNumber + k - 1)]
                ELSE [content |-> <<>>, type |-> "added", lineNumber |-> Null]],
          !.originalLineNumber = @ + r,
          !.modifiedLines = @ \o [k \in 1..Max(r, a) |->
                IF k <= a
                THEN [content |-> addedLines[k],
                      type |-> IF k <= m THEN "modified" ELSE "added",
                      lineNumber |-> Num(l.modifiedLineNumber + k - 1)]
                ELSE [content |-> <<>>, type |-> "removed", lineNumber |-> Null]],
          !.modifiedLineNumber = @ + a,
          !.modifications = @ + PairCount(r, a),
          !.index = @ + 2]

\* ComputeDiffPairStep without the `index += 1` that skips the added part.
ComputeDiffPairStepNoSkip(l, part, nextPart) ==
    LET removedLines == splitIntoLines(part.value)
        addedLines == splitIntoLines(nextPart.value)
    IN  [l EXCEPT
          !.originalLines = @ \o NumberedLines(removedLines, "modified", l.originalLineNumber),
          !.originalLineNumber = @ + Len(removedLines),
          !.modifiedLines = @ \o NumberedLines(addedLines, "modified", l.modifiedLineNumber),
          !.modifiedLineNumber = @ + Len(addedLines),
          !.modifications = @ + PairCount(Len(removedLines), Len(addedLines)),
          !.index = @ + 1]

\* The body of the loop for a removed part followed by an added part.
ComputeDiffPairStep(l, part, nextPart) ==
    LET removedLines == splitIntoLines(part.value)
        addedLines == splitIntoLines(nextPart.value)
    IN  [l EXCEPT
          !.originalLines = @ \o NumberedLines(removedLines, "modified", l.originalLineNumber),
          !.originalLineNumber = @ + Len(removedLines),
          !.modifiedLines = @ \o NumberedLines(addedLines, "modified", l.modifiedLineNumber),
          !.modifiedLineNumber = @ + Len(addedLines),
          !.modifications = @ + PairCount(Len(removedLines), Len(addedLines)),
          !.index = @ + 2]

\* ComputeDiffAddedStep counting one addition for the part, not one a line.
ComputeDiffAddedStepCountOnce(l, part) ==
    LET addedLines == splitIntoLines(part.value)
    IN  [l EXCEPT
          !.modifiedLines = @ \o NumberedLines(addedLines, "added", l.modifiedLineNumber),
          !.modifiedLineNumber = @ + Len(addedLines),
          !.originalLines = @ \o PlaceholderLines(Len(addedLines), "added"),
          !.additions = @ + 1,
          !.index = @ + 1]

\* The body of the loop for an added part.
ComputeDiffAddedStep(l, part) ==
    LET addedLines == splitIntoLines(part.value)
    IN  IF Len(addedLines) = 0
        THEN [l EXCEPT
               !.modifiedLines = Append(@, [content |-> <<>>, type |-> "added",
                                            lineNumber |-> Num(l.modifiedLineNumber)]),
               !.originalLines = Append(@, [content |-> <<>>, type |-> "added",
                                            lineNumber |-> Null]),
               !.additions = @ + 1,
               !.modifiedLineNumber = @ + 1,
               !.index = @ + 1]
        ELSE [l EXCEPT
               !.modifiedLines = @ \o NumberedLines(addedLines, "added", l.modifiedLineNumber),
               !.modifiedLineNumber = @ + Len(addedLines),
               !.originalLines = @ \o PlaceholderLines(Len(addedLines), "added"),
               !.additions = @ + Len(addedLines),
               !.index = @ + 1]

\* ComputeDiffRemovedStep pushing the placeholder's empty content on both sides.
ComputeDiffRemovedStepBlank(l, part) ==
    LET removedLines == splitIntoLines(part.value)
        blank == [k \in 1..Len(removedLines) |-> <<>>]
    IN  [l EXCEPT
          !.originalLines = @ \o NumberedLines(blank, "removed", l.originalLineNumber),
          !.originalLineNumber = @ + Len(removedLines),
          !.modifiedLines = @ \o PlaceholderLines(Len(removedLines), "removed"),
          !.deletions = @ + Len(removedLines),
          !.index = @ + 1]

\* The body of the loop for a removed part.
ComputeDiffRemovedStep(l, part) ==
    LET removedLines == splitIntoLines(part.value)
    IN  IF Len(removedLines) = 0
        THEN [l EXCEPT
               !.originalLines = Append(@, [content |-> <<>>, type |-> "removed",
                                            lineNumber |-> Num(l.originalLineNumber)]),
               !.modifiedLines = Append(@, [content |-> <<>>, type |-> "removed",
                                            lineNumber |-> Null]),
               !.deletions = @ + 1,
               !.originalLineNumber = @ + 1,
               !.index = @ + 1]
        ELSE [l EXCEPT
               !.originalLines = @ \o NumberedLines(removedLines, "removed", l.originalLineNumber),
               !.originalLineNumber = @ + Len(removedLines),
               !.modifiedLines = @ \o PlaceholderLines(Len(removedLines), "removed"),
               !.deletions = @ + Len(removedLines),
               !.index = @ + 1]

\* ComputeDiffUnchangedStep with modifiedLineNumber never advanced.
ComputeDiffUnchangedStepStale(l, part) ==
    LET unchangedLines == splitIntoLines(part.value)
    IN  [l EXCEPT
          !.originalLines = @ \o NumberedLines(unchangedLines, "unchanged", l.originalLineNumber),
          !.modifiedLines = @ \o [k \in 1..Len(unchangedLines) |->
                [content |-> unchangedLines[k], type |-> "unchanged",
                 lineNumber |-> Num(l.modifiedLineNumber)]],
          !.originalLineNumber = @ + Len(unchangedLines),
          !.index = @ + 1]

\* The body of the loop for an unchanged part.
ComputeDiffUnchangedStep(l, part) ==
    LET unchangedLines == splitIntoLines(part.value)
    IN  IF Len(unchangedLines) = 0
        THEN [l EXCEPT !.index = @ + 1]
        ELSE [l EXCEPT
               !.originalLines = @ \o NumberedLines(unchangedLines, "unchanged", l.originalLineNumber),
               !.modifiedLines = @ \o NumberedLines(unchangedLines, "unchanged", l.modifiedLineNumber),
               !.originalLineNumber = @ + Len(unchangedLines),
               !.modifiedLineNumber = @ + Len(unchangedLines),
               !.index = @ + 1]

\* return { original, modified, stats }
ComputeDiffResult(l) ==
    [returned |-> TRUE, original |-> l.originalLines, modified |-> l.modifiedLines,
     stats |-> [additions |-> l.additions, deletions |-> l.deletions,
                modifications |-> l.modifications]]

\* The result of the fast path.
EmptyResult ==
    [returned |-> TRUE, original |-> <<>>, modified |-> <<>>,
     stats |-> [additions |-> 0, deletions |-> 0, modifications |-> 0]]

InLoop(v) == variant = v /\ pc = "loop" /\ locals.index < Len(parts)

ComputeDiffFastPath ==
    /\ variant = "computeDiff" /\ pc = "start"
    /\ BothEmpty(original, modified)
    /\ result' = EmptyResult
    /\ pc' = "done"
    /\ UNCHANGED <<args, monacoVars, viewVars, variant, original, modified,
                 parts, diffCalls, locals>>

ComputeDiffCall ==
    /\ variant = "computeDiff" /\ pc = "start"
    /\ ~BothEmpty(original, modified)
    /\ \E ps \in DiffLines(original, modified) : parts' = ps
    /\ diffCalls' = diffCalls + 1
    /\ locals' = ComputeDiffLocals
    /\ pc' = "loop"
    /\ UNCHANGED <<args, monacoVars, viewVars, variant, original, modified,
                 result>>

ComputeDiffPair ==
    /\ InLoop("computeDiff")
    /\ IsPairAt(parts, locals.index)
    /\ locals' = ComputeDiffPairStep(locals, parts[locals.index + 1], parts[locals.index + 2])
    /\ UNCHANGED <<args, monacoVars, viewVars, variant, original, modified,
                 pc, parts, diffCalls, result>>

ComputeDiffAdded ==
    /\ InLoop("computeDiff")
    /\ ~IsPairAt(parts, locals.index)
    /\ parts[locals.index + 1].added
    /\ locals' = ComputeDiffAddedStep(locals, parts[locals.index + 1])
    /\ UNCHANGED <<args, monacoVars, viewVars, variant, original, modified,
                 pc, parts, diffCalls, result>>

ComputeDiffRemoved ==
    /\ InLoop("computeDiff")
    /\ ~IsPairAt(parts, locals.index)
    /\ ~parts[locals.index + 1].added
    /\ parts[locals.index + 1].removed
    /\ locals' = ComputeDiffRemovedStep(locals, parts[locals.index + 1])
    /\ UNCHANGED <<args, monacoVars, viewVars, variant, original, modified,
                 pc, parts, diffCalls, result>>

ComputeDiffUnchanged ==
    /\ InLoop("computeDiff")
    /\ ~parts[locals.index + 1].added
    /\ ~parts[locals.index + 1].removed
    /\ locals' = ComputeDiffUnchangedStep(locals, parts[locals.index + 1])
    /\ UNCHANGED <<args, monacoVars, viewVars, variant, original, modified,
                 pc, parts, diffCalls, result>>

ComputeDiffReturn ==
    /\ variant = "computeDiff" /\ pc = "loop"
    /\ locals.index >= Len(parts)
    /\ result' = ComputeDiffResult(locals)
    /\ pc' = "done"
    /\ UNCHANGED <<args, monacoVars, viewVars, variant, original, modified,
                 parts, diffCalls, locals>>

\* ------------------------------------------------------- computeInlineDiff

\* const splitLines = (value) => value.split('\n')
splitLines(value) == Split(value)

\* The locals of computeInlineDiff as the loop starts.
InlineLocals ==
    [index |-> 0, leftLines |-> <<>>, rightLines |-> <<>>,
     leftLineNumber |-> 1, rightLineNumber |-> 1,
     additions |-> 0, deletions |-> 0, modifications |-> 0]

\* lines.forEach((line, lineIndex) => push({id, lineNumber: start++, text: line, type}))
\* where type is `paired` for the first `shared` lines and `alone` for the rest.
PaneLines(side, lines, start, index, shared, paired, alone) ==
    [k \in 1..Len(lines) |->
        [id |-> <<side, start + k - 1, index, k - 1>>,
         lineNumber |-> start + k - 1,
         text |-> lines[k],
         type |-> IF k <= shared THEN paired ELSE alone]]

\* InlinePairStep counting the longer run of the pair as modifications.
InlinePairStepCountLongest(l, part, addedPart) ==
    LET partLines == splitLines(part.value)
        addedLines == splitLines(addedPart.value)
        sharedLength == Min(Len(partLines), Len(addedLines))
    IN  [l EXCEPT
          !.modifications = @ + Max(Len(partLines), Len(addedLines)),
          !.deletions = @ + (Len(partLines) - sharedLength),
          !.additions = @ + (Len(addedLines) - sharedLength),
          !.leftLines = @ \o PaneLines("L", partLines, l.leftLineNumber, l.index,
                                       sharedLength, "modified", "removed"),
          !.leftLineNumber = @ + Len(partLines),
          !.rightLines = @ \o PaneLines("R", addedLines, l.rightLineNumber, l.index,
                                        sharedLength, "modified", "added"),
          !.rightLineNumber = @ + Len(addedLines),
          !.index = @ + 2]

\* InlinePairStep without the `index += 1` that skips the added part.
InlinePairStepNoSkip(l, part, addedPart) ==
    LET partLines == splitLines(part.value)
        addedLines == splitLines(addedPart.value)
        sharedLength == Min(Len(partLines), Len(addedLines))
    IN  [l EXCEPT
          !.modifications = @ + sharedLength,
          !.deletions = @ + (Len(partLines) - sharedLength),
          !.additions = @ + (Len(addedLines) - sharedLength),
          !.leftLines = @ \o PaneLines("L", partLines, l.leftLineNumber, l.index,
                                       sharedLength, "modified", "removed"),
          !.leftLineNumber = @ + Len(partLines),
          !.rightLines = @ \o PaneLines("R", addedLines, l.rightLineNumber, l.index,
                                        sharedLength, "modified", "added"),
          !.rightLineNumber = @ + Len(addedLines),
          !.index = @ + 1]

\* The body of the loop for a removed part followed by an added part: line k
\* of the removed part faces line k of the added part.
InlinePairStep(l, part, addedPart) ==
    LET partLines == splitLines(part.value)
        addedLines == splitLines(addedPart.value)
        sharedLength == Min(Len(partLines), Len(addedLines))
    IN  [l EXCEPT
          !.modifications = @ + sharedLength,
          !.deletions = @ + (Len(partLines) - sharedLength),
          !.additions = @ + (Len(addedLines) - sharedLength),
          !.leftLines = @ \o PaneLines("L", partLines, l.leftLineNumber, l.index,
                                       sharedLength, "modified", "removed"),
          !.leftLineNumber = @ + Len(partLines),
          !.rightLines = @ \o PaneLines("R", addedLines, l.rightLineNumber, l.index,
                                        sharedLength, "modified", "added"),
          !.rightLineNumber = @ + Len(addedLines),
          !.index = @ + 2]

InlineAddedStep(l, part) ==
    LET partLines == splitLines(part.value)
    IN  [l EXCEPT
          !.additions = @ + Len(partLines),
          !.rightLines = @ \o PaneLines("R", partLines, l.rightLineNumber, l.index,
                                        0, "added", "added"),
          !.rightLineNumber = @ + Len(partLines),
          !.index = @ + 1]

InlineRemovedStep(l, part) ==
    LET partLines == splitLines(part.value)
    IN  [l EXCEPT
          !.deletions = @ + Len(partLines),
          !.leftLines = @ \o PaneLines("L", partLines, l.leftLineNumber, l.index,
                                       0, "removed", "removed"),
          !.leftLineNumber = @ + Len(partLines),
          !.index = @ + 1]

\* InlineUnchangedStep pushing the lines on the left side only.
InlineUnchangedStepLeftOnly(l, part) ==
    LET partLines == splitLines(part.value)
    IN  [l EXCEPT
          !.leftLines = @ \o PaneLines("L", partLines, l.leftLineNumber, l.index,
                                       0, "unchanged", "unchanged"),
          !.leftLineNumber = @ + Len(partLines),
          !.rightLineNumber = @ + Len(partLines),
          !.index = @ + 1]

InlineUnchangedStep(l, part) ==
    LET partLines == splitLines(part.value)
    IN  [l EXCEPT
          !.leftLines = @ \o PaneLines("L", partLines, l.leftLineNumber, l.index,
                                       0, "unchanged", "unchanged"),
          !.rightLines = @ \o PaneLines("R", partLines, l.rightLineNumber, l.index,
                                        0, "unchanged", "unchanged"),
          !.leftLineNumber = @ + Len(partLines),
          !.rightLineNumber = @ + Len(partLines),
          !.index = @ + 1]

\* return { left, right, stats }
InlineResult(l) ==
    [returned |-> TRUE, left |-> l.leftLines, right |-> l.rightLines,
     stats |-> [additions |-> l.additions, deletions |-> l.deletions,
                modifications |-> l.modifications]]

\* part.removed && diff[index + 1]?.added
InlineIsPairAt(ps, index) ==
    /\ ps[index + 1].removed
    /\ index + 1 < Len(ps)
    /\ ps[index + 2].added

InlineCall ==
    /\ variant = "computeInlineDiff" /\ pc = "start"
    /\ \E ps \in DiffLines(original, modified) : parts' = ps
    /\ diffCalls' = diffCalls + 1
    /\ locals' = InlineLocals
    /\ pc' = "loop"
    /\ UNCHANGED <<args, monacoVars, viewVars, variant, original, modified,
                 result>>

InlinePair ==
    /\ InLoop("computeInlineDiff")
    /\ InlineIsPairAt(parts, locals.index)
    /\ locals' = InlinePairStep(locals, parts[locals.index + 1], parts[locals.index + 2])
    /\ UNCHANGED <<args, monacoVars, viewVars, variant, original, modified,
                 pc, parts, diffCalls, result>>

InlineAdded ==
    /\ InLoop("computeInlineDiff")
    /\ ~InlineIsPairAt(parts, locals.index)
    /\ parts[locals.index + 1].added
    /\ locals' = InlineAddedStep(locals, parts[locals.index + 1])
    /\ UNCHANGED <<args, monacoVars, viewVars, variant, original, modified,
                 pc, parts, diffCalls, result>>

InlineRemoved ==
    /\ InLoop("computeInlineDiff")
    /\ ~InlineIsPairAt(parts, locals.index)
    /\ ~parts[locals.index + 1].added
    /\ parts[locals.index + 1].removed
    /\ locals' = InlineRemovedStep(locals, parts[locals.index + 1])
    /\ UNCHANGED <<args, monacoVars, viewVars, variant, original, modified,
                 pc, parts, diffCalls, result>>

InlineUnchanged ==
    /\ InLoop("computeInlineDiff")
    /\ ~parts[locals.index + 1].added
    /\ ~parts[locals.index + 1].removed
    /\ locals' = InlineUnchangedStep(locals, parts[locals.index + 1])
    /\ UNCHANGED <<args, monacoVars, viewVars, variant, original, modified,
                 pc, parts, diffCalls, result>>

InlineReturn ==
    /\ variant = "computeInlineDiff" /\ pc = "loop"
    /\ locals.index >= Len(parts)
    /\ result' = InlineResult(locals)
    /\ pc' = "done"
    /\ UNCHANGED <<args, monacoVars, viewVars, variant, original, modified,
                 parts, diffCalls, locals>>

\* ------------------------------------------- the unified variant's diffLines

\* part.value.split('\n').filter((_, index, arr) =>
\*     index < arr.length - 1 || part.value[part.value.length - 1] !== '\n')
PartLines(value) ==
    LET arr == Split(value)
    IN  IF Len(value) > 0 /\ value[Len(value)] = LF
        THEN SubSeq(arr, 1, Len(arr) - 1)
        ELSE arr

\* The locals of the diffLines memo as the forEach starts.
UnifiedLocals ==
    [index |-> 0, lines |-> <<>>, leftLineNumber |-> 1, rightLineNumber |-> 1]

\* UnifiedPartStep giving a removed row the right line number it stands at
\* instead of null.
UnifiedPartStepNumberedRemoved(l, part) ==
    LET partLines == PartLines(part.value)
        n == Len(partLines)
    IN  IF part.added
        THEN [l EXCEPT
               !.lines = @ \o [k \in 1..n |->
                    [type |-> "added", leftContent |-> <<>>, rightContent |-> partLines[k],
                     leftLineNumber |-> Null,
                     rightLineNumber |-> Num(l.rightLineNumber + k - 1)]],
               !.rightLineNumber = @ + n,
               !.index = @ + 1]
        ELSE IF part.removed
        THEN [l EXCEPT
               !.lines = @ \o [k \in 1..n |->
                    [type |-> "removed", leftContent |-> partLines[k], rightContent |-> <<>>,
                     leftLineNumber |-> Num(l.leftLineNumber + k - 1),
                     rightLineNumber |-> Num(l.rightLineNumber)]],
               !.leftLineNumber = @ + n,
               !.index = @ + 1]
        ELSE [l EXCEPT
               !.lines = @ \o [k \in 1..n |->
                    [type |-> "unchanged", leftContent |-> partLines[k],
                     rightContent |-> partLines[k],
                     leftLineNumber |-> Num(l.leftLineNumber + k - 1),
                     rightLineNumber |-> Num(l.rightLineNumber + k - 1)]],
               !.leftLineNumber = @ + n,
               !.rightLineNumber = @ + n,
               !.index = @ + 1]

\* The rows one part pushes, and the line numbers it uses up.
UnifiedPartStep(l, part) ==
    LET partLines == PartLines(part.value)
        n == Len(partLines)
    IN  IF part.added
        THEN [l EXCEPT
               !.lines = @ \o [k \in 1..n |->
                    [type |-> "added", leftContent |-> <<>>, rightContent |-> partLines[k],
                     leftLineNumber |-> Null,
                     rightLineNumber |-> Num(l.rightLineNumber + k - 1)]],
               !.rightLineNumber = @ + n,
               !.index = @ + 1]
        ELSE IF part.removed
        THEN [l EXCEPT
               !.lines = @ \o [k \in 1..n |->
                    [type |-> "removed", leftContent |-> partLines[k], rightContent |-> <<>>,
                     leftLineNumber |-> Num(l.leftLineNumber + k - 1),
                     rightLineNumber |-> Null]],
               !.leftLineNumber = @ + n,
               !.index = @ + 1]
        ELSE [l EXCEPT
               !.lines = @ \o [k \in 1..n |->
                    [type |-> "unchanged", leftContent |-> partLines[k],
                     rightContent |-> partLines[k],
                     leftLineNumber |-> Num(l.leftLineNumber + k - 1),
                     rightLineNumber |-> Num(l.rightLineNumber + k - 1)]],
               !.leftLineNumber = @ + n,
               !.rightLineNumber = @ + n,
               !.index = @ + 1]

\* diffLines.filter(l => l.type === type).length
CountType(lines, type) == Cardinality({ k \in 1..Len(lines) : lines[k].type = type })

\* The diffLines memo's value with the stats memo computed from it.
UnifiedResult(lines) ==
    [returned |-> TRUE, diffLines |-> lines,
     stats |-> [additions |-> CountType(lines, "added"),
                deletions |-> CountType(lines, "removed")]]

UnifiedFastPath ==
    /\ variant = "diffLines" /\ pc = "start"
    /\ BothEmpty(original, modified)
    /\ result' = UnifiedResult(<<>>)
    /\ pc' = "done"
    /\ UNCHANGED <<args, monacoVars, viewVars, variant, original, modified,
                 parts, diffCalls, locals>>

UnifiedCall ==
    /\ variant = "diffLines" /\ pc = "start"
    /\ ~BothEmpty(original, modified)
    /\ \E ps \in DiffLines(original, modified) : parts' = ps
    /\ diffCalls' = diffCalls + 1
    /\ locals' = UnifiedLocals
    /\ pc' = "loop"
    /\ UNCHANGED <<args, monacoVars, viewVars, variant, original, modified,
                 result>>

UnifiedPart ==
    /\ InLoop("diffLines")
    /\ locals' = UnifiedPartStep(locals, parts[locals.index + 1])
    /\ UNCHANGED <<args, monacoVars, viewVars, variant, original, modified,
                 pc, parts, diffCalls, result>>

UnifiedReturn ==
    /\ variant = "diffLines" /\ pc = "loop"
    /\ locals.index >= Len(parts)
    /\ result' = UnifiedResult(locals.lines)
    /\ pc' = "done"
    /\ UNCHANGED <<args, monacoVars, viewVars, variant, original, modified,
                 parts, diffCalls, locals>>

\* ----------------------------------------------------- computeDiffSegments

\* The locals of computeDiffSegments as the loop starts.
SegmentsLocals == [index |-> 0, originalSegments |-> <<>>, modifiedSegments |-> <<>>]

Segment(value, type) == [value |-> value, type |-> type]

\* part.removed && parts[index + 1]?.added
SegmentsIsPairAt(ps, index) ==
    /\ ps[index + 1].removed
    /\ index + 1 < Len(ps)
    /\ ps[index + 2].added

\* SegmentsPairStep without the test of addedPart.value.
SegmentsPairStepNoGuard(l, part, addedPart) ==
    [l EXCEPT
       !.originalSegments = Append(@, Segment(part.value, "modify")),
       !.modifiedSegments = Append(@, Segment(addedPart.value, "modify")),
       !.index = @ + 2]

\* The body of the loop for a removed part followed by an added part.
SegmentsPairStep(l, part, addedPart) ==
    IF addedPart.value # <<>>
    THEN [l EXCEPT
           !.originalSegments = Append(@, Segment(part.value, "modify")),
           !.modifiedSegments = Append(@, Segment(addedPart.value, "modify")),
           !.index = @ + 2]
    ELSE [l EXCEPT !.index = @ + 2]

SegmentsResult(l) ==
    [returned |-> TRUE, original |-> l.originalSegments, modified |-> l.modifiedSegments]

\* if (!part.value) continue
SegmentsSkip ==
    /\ InLoop("computeDiffSegments")
    /\ parts[locals.index + 1].value = <<>>
    /\ locals' = [locals EXCEPT !.index = @ + 1]
    /\ UNCHANGED <<args, monacoVars, viewVars, variant, original, modified,
                 pc, parts, diffCalls, result>>

SegmentsPair ==
    /\ InLoop("computeDiffSegments")
    /\ parts[locals.index + 1].value # <<>>
    /\ SegmentsIsPairAt(parts, locals.index)
    /\ locals' = SegmentsPairStep(locals, parts[locals.index + 1], parts[locals.index + 2])
    /\ UNCHANGED <<args, monacoVars, viewVars, variant, original, modified,
                 pc, parts, diffCalls, result>>

SegmentsInsert ==
    /\ InLoop("computeDiffSegments")
    /\ parts[locals.index + 1].value # <<>>
    /\ ~SegmentsIsPairAt(parts, locals.index)
    /\ parts[locals.index + 1].added
    /\ locals' = [locals EXCEPT
                    !.modifiedSegments = Append(@, Segment(parts[locals.index + 1].value, "insert")),
                    !.index = @ + 1]
    /\ UNCHANGED <<args, monacoVars, viewVars, variant, original, modified,
                 pc, parts, diffCalls, result>>

SegmentsDelete ==
    /\ InLoop("computeDiffSegments")
    /\ parts[locals.index + 1].value # <<>>
    /\ ~SegmentsIsPairAt(parts, locals.index)
    /\ ~parts[locals.index + 1].added
    /\ parts[locals.index + 1].removed
    /\ locals' = [locals EXCEPT
                    !.originalSegments = Append(@, Segment(parts[locals.index + 1].value, "delete")),
                    !.index = @ + 1]
    /\ UNCHANGED <<args, monacoVars, viewVars, variant, original, modified,
                 pc, parts, diffCalls, result>>

SegmentsEqual ==
    /\ InLoop("computeDiffSegments")
    /\ parts[locals.index + 1].value # <<>>
    /\ ~parts[locals.index + 1].added
    /\ ~parts[locals.index + 1].removed
    /\ locals' = [locals EXCEPT
                    !.originalSegments = Append(@, Segment(parts[locals.index + 1].value, "equal")),
                    !.modifiedSegments = Append(@, Segment(parts[locals.index + 1].value, "equal")),
                    !.index = @ + 1]
    /\ UNCHANGED <<args, monacoVars, viewVars, variant, original, modified,
                 pc, parts, diffCalls, result>>

SegmentsReturn ==
    /\ variant = "computeDiffSegments" /\ pc = "loop"
    /\ locals.index >= Len(parts)
    /\ result' = SegmentsResult(locals)
    /\ pc' = "done"
    /\ UNCHANGED <<args, monacoVars, viewVars, variant, original, modified,
                 parts, diffCalls, locals>>

\* ------------------------------------------------------------ specification

\* The variants that diff by lines.
LineVariants == { "computeDiff", "computeInlineDiff", "diffLines" }

\* A run of a line classifier on two texts the user typed or pasted.
Init ==
    /\ variant \in LineVariants
    /\ original \in Texts
    /\ modified \in Texts
    /\ pc = "start"
    /\ parts = <<>>
    /\ diffCalls = 0
    /\ locals = NoLocals
    /\ result = NoResult
    /\ args = NoArgs
    /\ MonacoInit
    /\ ViewInit

ComputeDiffLoop ==
    \/ ComputeDiffPair
    \/ ComputeDiffAdded
    \/ ComputeDiffRemoved
    \/ ComputeDiffUnchanged
    \/ ComputeDiffReturn

InlineLoop ==
    \/ InlinePair
    \/ InlineAdded
    \/ InlineRemoved
    \/ InlineUnchanged
    \/ InlineReturn

Next ==
    \/ ComputeDiffFastPath
    \/ ComputeDiffCall
    \/ ComputeDiffLoop
    \/ InlineCall
    \/ InlineLoop
    \/ UnifiedFastPath
    \/ UnifiedCall
    \/ UnifiedPart
    \/ UnifiedReturn

Spec == Init /\ [][Next]_vars

\* ---------------------------------------- the classifiers on any run sequence

\* The values a run may hold: no line, one line, two lines.
RunValues == { <<>>, <<"a", LF>>, <<"a", LF, "b", LF>> }

RunOps == { "e", "r", "a" }

\* The run sequences of up to MaxRuns runs.
RunSeqs ==
    UNION { [1..n -> { Change(v, op) : v \in RunValues, op \in RunOps }] : n \in 0..MaxRuns }

RECURSIVE SideText(_, _)
\* The text of one side that the runs stand for: the values of the runs that
\* are not of the other side's kind (dropped: "a" for the original side, "r"
\* for the modified side), joined in order.
SideText(ps, dropped) ==
    IF Len(ps) = 0 THEN <<>>
    ELSE (IF (dropped = "a" /\ ps[1].added) \/ (dropped = "r" /\ ps[1].removed)
          THEN <<>> ELSE ps[1].value) \o SideText(Tail(ps), dropped)

RunVariants == { "computeDiff", "computeInlineDiff", "computeDiffSegments" }

LoopLocals(v) ==
    IF v = "computeDiff" THEN ComputeDiffLocals
    ELSE IF v = "computeInlineDiff" THEN InlineLocals
    ELSE SegmentsLocals

\* A classifier as the diff primitive has just returned some run sequence, the
\* two texts being the ones the runs rebuild.  computeDiff gets there only if
\* one of the texts is not empty.
InitRuns ==
    /\ variant \in RunVariants
    /\ parts \in RunSeqs
    /\ original = SideText(parts, "a")
    /\ modified = SideText(parts, "r")
    /\ variant = "computeDiff" => ~BothEmpty(original, modified)
    /\ pc = "loop"
    /\ diffCalls = 1
    /\ locals = LoopLocals(variant)
    /\ result = NoResult
    /\ args = NoArgs
    /\ MonacoInit
    /\ ViewInit

NextRuns ==
    \/ ComputeDiffLoop
    \/ InlineLoop
    \/ SegmentsSkip
    \/ SegmentsPair
    \/ SegmentsInsert
    \/ SegmentsDelete
    \/ SegmentsEqual
    \/ SegmentsReturn

SpecRuns == InitRuns /\ [][NextRuns]_vars

\* ------------------------------------------------- the display settings

\* Some of the languages the selector offers.
LanguageOptions == { "javascript", "typescript", "plaintext" }

ViewModes == { "split", "unified" }

\* MemoDeps with the display settings among the dependencies.
MemoDepsWithSettings == <<original, modified, language, viewMode>>

\* The dependency array of the memo that holds the classifier's result.
MemoDeps == <<original, modified>>

\* The render after a state change: the memo keeps its value when its
\* dependencies are the same, and the classifier runs again when they differ.
Rerender ==
    IF MemoDeps' = MemoDeps
    THEN UNCHANGED <<pc, parts, diffCalls, locals, result>>
    ELSE /\ pc' = "start"
         /\ parts' = <<>>
         /\ diffCalls' = 0
         /\ locals' = NoLocals
         /\ result' = NoResult

\* The language selector changes: setLanguage(event.target.value).
SetLanguage ==
    /\ variant \in LineVariants /\ pc = "done"
    /\ \E value \in LanguageOptions \ { language } : language' = value
    /\ UNCHANGED <<variant, original, modified, viewMode>>
    /\ Rerender
    /\ UNCHANGED <<args, monacoVars>>

\* A view mode button of the unified variant is clicked: setViewMode(mode).
SetViewMode ==
    /\ variant = "diffLines" /\ pc = "done"
    /\ \E mode \in ViewModes \ { viewMode } : viewMode' = mode
    /\ UNCHANGED <<variant, original, modified, language>>
    /\ Rerender
    /\ UNCHANGED <<args, monacoVars>>

NextView ==
    \/ Next
    \/ SetLanguage
    \/ SetViewMode

\* A variant classifies two texts and the user then changes the display
\* settings.
SpecView == Init /\ [][NextView]_vars

\* ------------------------------------------------- the helpers, one by one

\* No classifier runs: the state of the classifiers while a helper function
\* is called on its own.
NoDiff ==
    /\ original = <<>>
    /\ modified = <<>>
    /\ parts = <<>>
    /\ diffCalls = 0
    /\ locals = NoLocals
    /\ result = NoResult

\* Strings hold at most MaxLen characters where any string is considered.
MaxLen == 4

\* The strings of up to MaxLen characters over a letter and the two
\* terminator characters.
Strings == UNION { [1..n -> { "a", LF, CR }] : n \in 0..MaxLen }

\* splitIntoLines is about to be called on some string.
InitSplit ==
    /\ variant = "splitIntoLines"
    /\ args \in { [value |-> v] : v \in Strings }
    /\ pc = "start"
    /\ NoDiff
    /\ MonacoInit
    /\ ViewInit

\* The call of splitIntoLines.
SplitCall ==
    /\ variant = "splitIntoLines" /\ pc = "start"
    /\ pc' = "done"
    /\ result' = [returned |-> TRUE, lines |-> splitIntoLines(args.value)]
    /\ UNCHANGED <<args, monacoVars, viewVars, variant, original, modified, parts,
                   diffCalls, locals>>

NextSplit == SplitCall

SpecSplit == InitSplit /\ [][NextSplit]_vars

\* ------------------------------------------------ the highlight functions

\* Code handed to a highlight function holds at most MaxCodeLen characters.
MaxCodeLen == 2

\* A letter and the characters HTML gives a meaning to.
HtmlChars == { "a", "&", "<", ">", "\"", "'" }

Codes == UNION { [1..n -> HtmlChars] : n \in 0..MaxCodeLen }

\* The entities the replacements write.
AmpEntity == <<"&", "a", "m", "p", ";">>
LtEntity == <<"&", "l", "t", ";">>
GtEntity == <<"&", "g", "t", ";">>
QuotEntity == <<"&", "q", "u", "o", "t", ";">>
AposEntity == <<"&", "#", "3", "9", ";">>

RECURSIVE ReplaceAll(_, _, _)
\* value.replace(/ch/g, entity)
ReplaceAll(value, ch, entity) ==
    IF Len(value) = 0 THEN <<>>
    ELSE (IF value[1] = ch THEN entity ELSE <<value[1]>>)
            \o ReplaceAll(Tail(value), ch, entity)

\* code.replace(/&/g, '&amp;').replace(/</g, '&lt;').replace(/>/g, '&gt;')
EscapeAmpLtGt(code) ==
    ReplaceAll(ReplaceAll(ReplaceAll(code, "&", AmpEntity), "<", LtEntity),
               ">", GtEntity)

escapeHtml(value) ==
    ReplaceAll(ReplaceAll(EscapeAmpLtGt(value), "\"", QuotEntity), "'", AposEntity)

\* What Prism.highlight returns when it does not throw, for code in which the
\* grammar finds no token: the text with & and < encoded.
PrismHighlight(code) ==
    ReplaceAll(ReplaceAll(code, "&", AmpEntity), "<", LtEntity)

\* What hljs.highlight(...).value is when it does not throw, for code in which
\* the grammar finds no token: the text with the five characters escaped.
HljsHighlight(code) ==
    ReplaceAll(ReplaceAll(ReplaceAll(ReplaceAll(ReplaceAll(code,
        "&", AmpEntity), "<", LtEntity), ">", GtEntity),
        "\"", QuotEntity), "'", AposEntity)

\* highlightSyntax of the computeDiff variant; throws tells whether
\* Prism.highlight throws on this call.
highlightSyntax(code, throws) ==
    IF code = <<>> THEN <<>>
    ELSE IF throws THEN EscapeAmpLtGt(code)
    ELSE PrismHighlight(code)

\* highlightSyntax of the unified variant.
highlightSyntaxUnified(code, throws) ==
    IF code = <<>> THEN <<>>
    ELSE IF throws THEN code
    ELSE PrismHighlight(code)

Nbsp == <<"&", "n", "b", "s", "p", ";">>

\* highlight of the inline variant.
highlight(code, throws) ==
    IF code = <<>> THEN Nbsp
    ELSE IF throws THEN escapeHtml(code)
    ELSE PrismHighlight(code)

\* highlightCode of the editor variant.
highlightCode(code, lang, throws) ==
    IF code = <<>> THEN <<>>
    ELSE IF lang = "plaintext" THEN escapeHtml(code)
    ELSE IF throws THEN escapeHtml(code)
    ELSE HljsHighlight(code)

HighlightFunctions ==
    { "highlightSyntax", "highlightSyntaxUnified", "highlight", "highlightCode" }

\* A highlight function is about to be called on some code, for some
\* language, the external highlighter being about to throw or not.
InitHighlight ==
    /\ variant \in HighlightFunctions
    /\ args \in { [code |-> c, lang |-> l, throws |-> t] :
                     c \in Codes, l \in { "plaintext", "javascript" },
                     t \in BOOLEAN }
    /\ pc = "start"
    /\ NoDiff
    /\ MonacoInit
    /\ ViewInit

\* The function has returned html.
Html(html) == [returned |-> TRUE, html |-> html]

HighlightSyntaxCall ==
    /\ variant = "highlightSyntax" /\ pc = "start"
    /\ pc' = "done"
    /\ result' = Html(highlightSyntax(args.code, args.throws))
    /\ UNCHANGED <<args, monacoVars, viewVars, variant, original, modified, parts,
                   diffCalls, locals>>

HighlightSyntaxUnifiedCall ==
    /\ variant = "highlightSyntaxUnified" /\ pc = "start"
    /\ pc' = "done"
    /\ result' = Html(highlightSyntaxUnified(args.code, args.throws))
    /\ UNCHANGED <<args, monacoVars, viewVars, variant, original, modified, parts,
                   diffCalls, locals>>

HighlightCall ==
    /\ variant = "highlight" /\ pc = "start"
    /\ pc' = "done"
    /\ result' = Html(highlight(args.code, args.throws))
    /\ UNCHANGED <<args, monacoVars, viewVars, variant, original, modified, parts,
                   diffCalls, locals>>

HighlightCodeCall ==
    /\ variant = "highlightCode" /\ pc = "start"
    /\ pc' = "done"
    /\ result' = Html(highlightCode(args.code, args.lang, args.throws))
    /\ UNCHANGED <<args, monacoVars, viewVars, variant, original, modified, parts,
                   diffCalls, locals>>

NextHighlight ==
    \/ HighlightSyntaxCall
    \/ HighlightSyntaxUnifiedCall
    \/ HighlightCall
    \/ HighlightCodeCall

SpecHighlight == InitHighlight /\ [][NextHighlight]_vars

\* ------------------------------------------------- the tokens of a line

\* The word diff primitive returns at most MaxWordRuns parts where any of its
\* outputs is considered.
MaxWordRuns == 2

\* The texts a line may have where its words matter.
WordTexts == { <<>>, <<"a">>, <<"a", " ", "b">> }

\* The values a part of the word diff may hold.
WordValues == { <<>>, <<"a">>, <<" ", "b">> }

\* What Diff.diffWordsWithSpace may return: any sequence of up to MaxWordRuns
\* parts.
WordDiffs ==
    UNION { [1..n -> { Change(v, op) : v \in WordValues, op \in RunOps }] :
              n \in 0..MaxWordRuns }

Token(value, type) == [value |-> value, type |-> type]

ensureTokens(tokens) ==
    IF Len(tokens) > 0 THEN tokens ELSE << Token(<<>>, "context") >>

RECURSIVE ModifiedTokensSwapped(_, _)
\* ModifiedTokens with the two sides exchanged.
ModifiedTokensSwapped(wordDiff, side) ==
    IF Len(wordDiff) = 0 THEN <<>>
    ELSE LET part == wordDiff[1]
             rest == ModifiedTokensSwapped(Tail(wordDiff), side)
         IN  IF side = "right"
             THEN IF part.added THEN rest
                  ELSE << Token(part.value,
                                IF part.removed THEN "deletion" ELSE "context") >>
                       \o rest
             ELSE IF part.removed THEN rest
                  ELSE << Token(part.value,
                                IF part.added THEN "addition" ELSE "context") >>
                       \o rest

RECURSIVE ModifiedTokens(_, _)
\* wordDiff.map(...).filter(token => token !== null): one token per part of
\* the word diff that belongs to the side.
ModifiedTokens(wordDiff, side) ==
    IF Len(wordDiff) = 0 THEN <<>>
    ELSE LET part == wordDiff[1]
             rest == ModifiedTokens(Tail(wordDiff), side)
         IN  IF side = "left"
             THEN IF part.added THEN rest
                  ELSE << Token(part.value,
                                IF part.removed THEN "deletion" ELSE "context") >>
                       \o rest
             ELSE IF part.removed THEN rest
                  ELSE << Token(part.value,
                                IF part.added THEN "addition" ELSE "context") >>
                       \o rest

\* buildTokens that takes the base value from the right content on both
\* sides.
buildTokensBaseRight(leftContent, rightContent, lineType, side, wordDiff) ==
    IF lineType = "modified"
    THEN ensureTokens(ModifiedTokens(wordDiff, side))
    ELSE ensureTokens(<< Token(rightContent,
                               IF lineType = "added" THEN "addition"
                               ELSE IF lineType = "removed" THEN "deletion"
                               ELSE "context") >>)

\* buildTokens; wordDiff is what Diff.diffWordsWithSpace(leftContent,
\* rightContent) returns, used for a modified line only.
buildTokens(leftContent, rightContent, lineType, side, wordDiff) ==
    IF lineType = "modified"
    THEN ensureTokens(ModifiedTokens(wordDiff, side))
    ELSE LET baseValue == IF side = "left" THEN leftContent ELSE rightContent
             tokenType == IF lineType = "added" THEN "addition"
                          ELSE IF lineType = "removed" THEN "deletion"
                          ELSE "context"
         IN  ensureTokens(<< Token(baseValue, tokenType) >>)

BuildTokensArgs(leftContent, rightContent, lineType, side) ==
    [leftContent |-> leftContent, rightContent |-> rightContent,
     lineType |-> lineType, side |-> side]

\* The calls of buildTokens that computeInlineDiff makes: for a line of a
\* removed-then-added pair that has a partner, on either side; for a removed
\* line (left) and an added line (right), alone or left over in a pair; for
\* an unchanged line on either side.
BuildTokensCalls ==
    { BuildTokensArgs(l, r, "modified", side) :
        l \in WordTexts, r \in WordTexts, side \in { "left", "right" } }
    \cup { BuildTokensArgs(l, <<>>, "removed", "left") : l \in WordTexts }
    \cup { BuildTokensArgs(<<>>, r, "added", "right") : r \in WordTexts }
    \cup { BuildTokensArgs(l, l, "unchanged", side) :
               l \in WordTexts, side \in { "left", "right" } }

\* computeInlineDiff is about to call buildTokens for a line.
InitTokens ==
    /\ variant = "buildTokens"
    /\ args \in BuildTokensCalls
    /\ pc = "start"
    /\ NoDiff
    /\ MonacoInit
    /\ ViewInit

\* buildTokens for a modified line: the word diff primitive is called and
\* returns some parts.
BuildTokensModified ==
    /\ variant = "buildTokens" /\ pc = "start"
    /\ args.lineType = "modified"
    /\ \E wordDiff \in WordDiffs :
          /\ parts' = wordDiff
          /\ result' = [returned |-> TRUE,
                         tokens |-> buildTokens(args.leftContent, args.rightContent,
                                                args.lineType, args.side, wordDiff)]
    /\ diffCalls' = diffCalls + 1
    /\ pc' = "done"
    /\ UNCHANGED <<args, monacoVars, viewVars, variant, original, modified, locals>>

\* buildTokens for a line of any other type: one token, no word diff.
BuildTokensPlain ==
    /\ variant = "buildTokens" /\ pc = "start"
    /\ args.lineType # "modified"
    /\ result' = [returned |-> TRUE,
                   tokens |-> buildTokens(args.leftContent, args.rightContent,
                                          args.lineType, args.side, <<>>)]
    /\ pc' = "done"
    /\ UNCHANGED <<args, monacoVars, viewVars, variant, original, modified, parts,
                   diffCalls, locals>>

NextTokens ==
    \/ BuildTokensModified
    \/ BuildTokensPlain

SpecTokens == InitTokens /\ [][NextTokens]_vars

\* ------------------------------------------------------ the Monaco variant

\* The values a text state or a text model may take.
MonacoTexts == { "", "a", "b" }

\* The React text state and the Monaco text model of a side.
TextOf(side) == IF side = "original" THEN originalText ELSE modifiedText
ModelOf(side) == IF side = "original" THEN originalModel ELSE modifiedModel

\* setOriginalText(value) / setModifiedText(value)
SetText(side, value) ==
    /\ originalText' = IF side = "original" THEN value ELSE originalText
    /\ modifiedText' = IF side = "modified" THEN value ELSE modifiedText

\* model.setValue(value) on the model of a side; the other model stays.
SetModel(side, value) ==
    /\ originalModel' = IF side = "original" THEN value ELSE originalModel
    /\ modifiedModel' = IF side = "modified" THEN value ELSE modifiedModel

\* debouncedOriginalChange(value) / debouncedModifiedChange(value): the
\* pending timer, whichever side set it, is cleared and a new one is set.
Debounced(side, value) == timeoutRef' = [side |-> side, value |-> value]

\* Whether the prop-sync effect of a side writes the model after the text
\* state went from old to new: the effect runs when the prop changed, and
\* writes when the model exists and holds another value.  The write raises
\* onDidChangeContent, which calls the debounced callback of the side.
SyncWrites(side, old, new) == old # new /\ mounted /\ new # ModelOf(side)

langMap ==
    [javascript |-> "javascript", typescript |-> "typescript", json |-> "json",
     xml |-> "html", css |-> "css", plaintext |-> "plaintext",
     jsx |-> "javascript", tsx |-> "typescript"]

\* What detectLanguage may return for a text: 'plaintext' for an empty text,
\* otherwise whatever hljs.highlightAuto picks; some of the subset's
\* languages are considered.
DetectedLanguages(text) ==
    IF text = "" THEN { "plaintext" }
    ELSE { "plaintext", "javascript", "xml", "tsx" }

\* The updater of the stickyLanguage effect without the test of prev.
stickyEffectAlways(prev, leftLang, rightLang) ==
    LET preferred == IF rightLang # "plaintext" THEN rightLang ELSE leftLang
    IN  langMap[preferred]

\* The stickyLanguage effect: the value setStickyLanguage's updater gives
\* for the previous value prev and the props leftLang and rightLang.
stickyEffect(prev, leftLang, rightLang) ==
    LET preferred == IF rightLang # "plaintext" THEN rightLang ELSE leftLang
        next == langMap[preferred]
    IN  IF prev = "plaintext" THEN next ELSE prev

\* The render after the text state of a side went from old to new: the
\* language memo of the side is computed again when its text changed, and
\* the stickyLanguage effect runs when one of the two languages changed.
DetectLanguages(side, old, new) ==
    \E lang \in (IF new = old
                  THEN { IF side = "original" THEN originalLang ELSE modifiedLang }
                  ELSE DetectedLanguages(new)) :
        /\ originalLang' = IF side = "original" THEN lang ELSE originalLang
        /\ modifiedLang' = IF side = "modified" THEN lang ELSE modifiedLang
        /\ stickyLanguage' =
              IF <<originalLang', modifiedLang'>> # <<originalLang, modifiedLang>>
              THEN stickyEffect(stickyLanguage, originalLang', modifiedLang')
              ELSE stickyLanguage

\* The Monaco variant as the page loads.
InitMonaco ==
    /\ variant = "MonacoDiff"
    /\ pc = "start"
    /\ NoDiff
    /\ args = NoArgs
    /\ MonacoInit
    /\ ViewInit

\* onMount: the two models are created from the props.
OnMount ==
    /\ variant = "MonacoDiff" /\ ~mounted
    /\ mounted' = TRUE
    /\ originalModel' = originalText
    /\ modifiedModel' = modifiedText
    /\ UNCHANGED <<originalText, modifiedText, timeoutRef, lastInput>>
    /\ UNCHANGED <<originalLang, modifiedLang, stickyLanguage>>
    /\ UNCHANGED <<args, viewVars, variant, original, modified, pc, parts, diffCalls,
                   locals, result>>

\* The user edits the text of a side in the diff editor: the model changes
\* and onDidChangeContent calls the debounced callback with its value.
Type(side, value) ==
    /\ variant = "MonacoDiff" /\ mounted
    /\ value # ModelOf(side)
    /\ SetModel(side, value)
    /\ Debounced(side, value)
    /\ lastInput' = [lastInput EXCEPT ![side] = "type"]
    /\ UNCHANGED <<originalText, modifiedText, mounted>>
    /\ UNCHANGED <<originalLang, modifiedLang, stickyLanguage>>
    /\ UNCHANGED <<args, viewVars, variant, original, modified, pc, parts, diffCalls,
                   locals, result>>

\* The pending timer fires: the text state of its side is set to its value,
\* the component renders, the prop-sync effect of the side and the
\* stickyLanguage effect run.
TimerFires ==
    /\ variant = "MonacoDiff" /\ timeoutRef # NoTimeout
    /\ SetText(timeoutRef.side, timeoutRef.value)
    /\ IF SyncWrites(timeoutRef.side, TextOf(timeoutRef.side), timeoutRef.value)
       THEN /\ SetModel(timeoutRef.side, timeoutRef.value)
            /\ Debounced(timeoutRef.side, timeoutRef.value)
       ELSE /\ timeoutRef' = NoTimeout
            /\ UNCHANGED <<originalModel, modifiedModel>>
    /\ UNCHANGED <<mounted, lastInput>>
    /\ DetectLanguages(timeoutRef.side, TextOf(timeoutRef.side), timeoutRef.value)
    /\ UNCHANGED <<args, viewVars, variant, original, modified, pc, parts, diffCalls,
                   locals, result>>

\* The Clear button of a side: the text state is set to '', the component
\* renders, the prop-sync effect of the side and the stickyLanguage effect
\* run.
Clear(side) ==
    /\ variant = "MonacoDiff"
    /\ SetText(side, "")
    /\ IF SyncWrites(side, TextOf(side), "")
       THEN SetModel(side, "") /\ Debounced(side, "")
       ELSE UNCHANGED <<originalModel, modifiedModel, timeoutRef>>
    /\ lastInput' = [lastInput EXCEPT ![side] = "clear"]
    /\ UNCHANGED mounted
    /\ DetectLanguages(side, TextOf(side), "")
    /\ UNCHANGED <<args, viewVars, variant, original, modified, pc, parts, diffCalls,
                   locals, result>>

NextMonaco ==
    \/ OnMount
    \/ \E side \in Sides, value \in MonacoTexts : Type(side, value)
    \/ TimerFires
    \/ \E side \in Sides : Clear(side)

SpecMonaco == InitMonaco /\ [][NextMonaco]_vars

\* ------------------------------------------------- the editor's Tab key

INDENT == <<" ", " ">>

TAB == "\t"

\* String.prototype.slice(start, end) for 0 <= start.
Slice(text, start, end) == SubSeq(text, start + 1, Min(end, Len(text)))

\* text.lastIndexOf('\n', fromIndex): the greatest index, counted from 0 and
\* not above fromIndex, that holds a line feed; -1 if there is none.
LastIndexOfLF(text, fromIndex) ==
    LET found == { k \in 0..Min(fromIndex, Len(text) - 1) : text[k + 1] = LF }
    IN  IF found = {} THEN -1
        ELSE CHOOSE k \in found : \A j \in found : j <= k

getLineStart(text, index) == LastIndexOfLF(text, Max(0, index - 1)) + 1

getLineEnd(text, index) ==
    LET found == { k \in index..(Len(text) - 1) : text[k + 1] = LF }
    IN  IF found = {} THEN Len(text)
        ELSE CHOOSE k \in found : \A j \in found : k <= j

indentSelection(text, selStart, selEnd) ==
    LET start == getLineStart(text, selStart)
        end == getLineEnd(text, selEnd)
        before == Slice(text, 0, start)
        block == Slice(text, start, end)
        after == Slice(text, end, Len(text))
        lines == Split(block)
        indented == JoinLines([i \in 1..Len(lines) |-> INDENT \o lines[i]], <<LF>>)
    IN  [newText |-> before \o indented \o after,
         newStart |-> selStart + Len(INDENT),
         newEnd |-> selEnd + Len(INDENT) * Len(lines)]

\* What the map callback of outdentSelection removes from the start of a line.
RemovedFrom(line) ==
    IF Slice(line, 0, Len(INDENT)) = INDENT THEN Len(INDENT)
    ELSE IF Len(line) > 0 /\ line[1] = TAB THEN 1
    ELSE 0

RECURSIVE Sum(_)
Sum(ns) == IF Len(ns) = 0 THEN 0 ELSE ns[1] + Sum(Tail(ns))

outdentSelection(text, selStart, selEnd) ==
    LET start == getLineStart(text, selStart)
        end == getLineEnd(text, selEnd)
        before == Slice(text, 0, start)
        block == Slice(text, start, end)
        after == Slice(text, end, Len(text))
        lines == Split(block)
        removedTotal == Sum([i \in 1..Len(lines) |-> RemovedFrom(lines[i])])
        outdented ==
            JoinLines([i \in 1..Len(lines) |->
                          Slice(lines[i], RemovedFrom(lines[i]), Len(lines[i]))], <<LF>>)
        firstLineRemoved ==
            IF Slice(text, start, start + Len(INDENT)) = INDENT THEN Len(INDENT)
            ELSE IF start < Len(text) /\ text[start + 1] = TAB THEN 1
            ELSE 0
        newStart == Max(start, selStart - firstLineRemoved)
    IN  [newText |-> before \o outdented \o after,
         newStart |-> newStart,
         newEnd |-> Max(newStart, selEnd - removedTotal),
         linesCount |-> Len(lines)]

insertAt(text, start, end, insert) ==
    Slice(text, 0, start) \o insert \o Slice(text, end, Len(text))

\* The textarea after an onChange and the animation frame that follows it.
Editor(value, selStart, selEnd) ==
    [value |-> value, selStart |-> selStart, selEnd |-> selEnd]

\* handleKeyDown for the Tab key on the textarea ta: the textarea once the
\* handler, onChange and the animation frame have run.
handleKeyDown(ta, shiftKey) ==
    LET value == ta.value
        selStart == ta.selStart
        selEnd == ta.selEnd
        lineStart == getLineStart(value, selStart)
    IN  IF selStart # selEnd
        THEN LET r == IF shiftKey THEN outdentSelection(value, selStart, selEnd)
                      ELSE indentSelection(value, selStart, selEnd)
             IN  Editor(r.newText, r.newStart, r.newEnd)
        ELSE IF shiftKey
        THEN IF Slice(value, lineStart, lineStart + Len(INDENT)) = INDENT
             THEN LET newPos == Max(lineStart, selStart - Len(INDENT))
                  IN  Editor(insertAt(value, lineStart, lineStart + Len(INDENT), <<>>),
                             newPos, newPos)
             ELSE IF lineStart < Len(value) /\ value[lineStart + 1] = TAB
             THEN LET newPos == Max(lineStart, selStart - 1)
                  IN  Editor(insertAt(value, lineStart, lineStart + 1, <<>>),
                             newPos, newPos)
             ELSE ta
        ELSE Editor(insertAt(value, selStart, selEnd, INDENT),
                    selStart + Len(INDENT), selStart + Len(INDENT))

\* The texts of an editor pane, of at most MaxLen characters.
EditorTexts == UNION { [1..n -> { "a", " ", TAB, LF }] : n \in 0..MaxLen }

\* An editor pane holds some text and some selection; no key was pressed yet.
InitEditor ==
    /\ variant = "EditorPane"
    /\ args \in { Editor(v, s, e) : v \in EditorTexts, s \in 0..MaxLen, e \in 0..MaxLen }
    /\ args.selStart <= args.selEnd
    /\ args.selEnd <= Len(args.value)
    /\ pc = "start"
    /\ NoDiff
    /\ MonacoInit
    /\ ViewInit

\* The textarea as the next key is pressed.
Textarea ==
    IF pc = "start" THEN args
    ELSE Editor(result.value, result.selStart, result.selEnd)

\* The Tab key, pressed first.
TabKey ==
    /\ variant = "EditorPane" /\ pc = "start"
    /\ LET ta == handleKeyDown(Textarea, FALSE)
       IN  result' = [returned |-> TRUE, value |-> ta.value,
                      selStart |-> ta.selStart, selEnd |-> ta.selEnd]
    /\ pc' = "Tab"
    /\ UNCHANGED <<args, monacoVars, viewVars, variant, original, modified, parts,
                   diffCalls, locals>>

\* Shift+Tab, pressed first or after the Tab key.
ShiftTabKey ==
    /\ variant = "EditorPane" /\ pc \in { "start", "Tab" }
    /\ LET ta == handleKeyDown(Textarea, TRUE)
       IN  result' = [returned |-> TRUE, value |-> ta.value,
                      selStart |-> ta.selStart, selEnd |-> ta.selEnd]
    /\ pc' = IF pc = "start" THEN "ShiftTab" ELSE "Tab, ShiftTab"
    /\ UNCHANGED <<args, monacoVars, viewVars, variant, original, modified, parts,
                   diffCalls, locals>>

NextEditor ==
    \/ TabKey
    \/ ShiftTabKey

SpecEditor == InitEditor /\ [][NextEditor]_vars

\* ------------------------------------------------------------------ claims

\* The number of lines a run's value holds.
LineCount(value) == Len(Tokenize(value))

\* The lines a step appended to a list.
Emitted(old, new) == SubSeq(new, Len(old) + 1, Len(new))

\* The part the loop is at, and the one after it.
CurPart == parts[locals.index + 1]
NextPart == parts[locals.index + 2]

\* A step of the loop of variant v.
LoopStep(v) ==
    /\ variant = v /\ pc = "loop"
    /\ locals.index < Len(parts)
    /\ locals'.index > locals.index

Returned(v) == variant = v /\ pc = "done"

RECURSIVE NonNullNumbers(_)
\* The line numbers of the lines that have one, in order.
NonNullNumbers(lines) ==
    IF Len(lines) = 0 THEN <<>>
    ELSE lines[1].lineNumber \o NonNullNumbers(Tail(lines))

\* seq is 1, 2, ..., Len(seq).
CountsFromOne(seq) == \A k \in 1..Len(seq) : seq[k] = k

PaneNumbers(lines) == [k \in 1..Len(lines) |-> lines[k].lineNumber]

\* C1: in the results of computeDiff and of computeInlineDiff, the non-null
\* line numbers of each side, in emission order, are 1, 2, ..., N.
C1_LineNumbersContiguous ==
    /\ Returned("computeDiff") =>
          /\ CountsFromOne(NonNullNumbers(result.original))
          /\ CountsFromOne(NonNullNumbers(result.modified))
    /\ Returned("computeInlineDiff") =>
          /\ CountsFromOne(PaneNumbers(result.left))
          /\ CountsFromOne(PaneNumbers(result.right))

\* A result of computeDiff with a null-numbered row before a numbered one on
\* the original side and three numbered rows on the modified side.
C1_Witness ==
    /\ Returned("computeDiff")
    /\ \E k \in 1..Len(result.original) :
          /\ result.original[k].lineNumber = Null
          /\ \E j \in (k + 1)..Len(result.original) : result.original[j].lineNumber # Null
    /\ Len(NonNullNumbers(result.modified)) >= 3

RECURSIVE ContentsOfTypes(_, _)
\* The contents of the lines whose type is one of types, in order.
ContentsOfTypes(lines, types) ==
    IF Len(lines) = 0 THEN <<>>
    ELSE (IF lines[1].type \in types THEN <<lines[1].content>> ELSE <<>>)
         \o ContentsOfTypes(Tail(lines), types)

\* C2: the contents of the original-side lines of computeDiff whose type is
\* unchanged, removed or modified are, in order, the lines of the original text.
C2_OriginalRoundTrip ==
    Returned("computeDiff") =>
        ContentsOfTypes(result.original, { "unchanged", "removed", "modified" })
            = splitIntoLines(original)

\* A result whose original side holds a modified line, an unchanged line and
\* the placeholder of an added line, from an original text ending in a terminator.
C2_Witness ==
    /\ Returned("computeDiff")
    /\ Len(original) > 0 /\ original[Len(original)] = LF
    /\ \E i, j, k \in 1..Len(result.original) :
          /\ result.original[i].type = "modified"
          /\ result.original[j].type = "unchanged"
          /\ result.original[k].type = "added"

TypesOf(lines) == [k \in 1..Len(lines) |-> lines[k].type]

\* The types of n lines of which the first m are modified and the rest other.
PairedTypes(n, m, other) == [k \in 1..n |-> IF k <= m THEN "modified" ELSE other]

\* A step of computeDiff at a removed part immediately followed by an added part.
ComputeDiffPairedBlock ==
    /\ LoopStep("computeDiff")
    /\ CurPart.removed
    /\ locals.index + 2 <= Len(parts)
    /\ NextPart.added

EmittedTypes ==
    IF variant = "computeDiff"
    THEN { l.type : l \in
             { Emitted(locals.originalLines, locals'.originalLines)[k] :
                 k \in 1..(Len(locals'.originalLines) - Len(locals.originalLines)) }
             \cup
             { Emitted(locals.modifiedLines, locals'.modifiedLines)[k] :
                 k \in 1..(Len(locals'.modifiedLines) - Len(locals.modifiedLines)) } }
    ELSE IF variant = "computeInlineDiff"
    THEN { l.type : l \in
             { Emitted(locals.leftLines, locals'.leftLines)[k] :
                 k \in 1..(Len(locals'.leftLines) - Len(locals.leftLines)) }
             \cup
             { Emitted(locals.rightLines, locals'.rightLines)[k] :
                 k \in 1..(Len(locals'.rightLines) - Len(locals.rightLines)) } }
    ELSE { l.type : l \in
             { Emitted(locals.originalSegments, locals'.originalSegments)[k] :
                 k \in 1..(Len(locals'.originalSegments) - Len(locals.originalSegments)) }
             \cup
             { Emitted(locals.modifiedSegments, locals'.modifiedSegments)[k] :
                 k \in 1..(Len(locals'.modifiedSegments) - Len(locals.modifiedSegments)) } }

IsEqualPart(part) == ~part.added /\ ~part.removed

\* C4: in computeDiff, computeInlineDiff and computeDiffSegments, a removed run
\* that an equal run follows is consumed alone and emits only removed lines
\* (delete segments), and an added run that an equal run precedes emits only
\* added lines (insert segments): neither is paired across the equal run.
C4_NoPairingAcrossEqual ==
    [][\A v \in RunVariants :
          /\ (/\ LoopStep(v)
              /\ CurPart.removed
              /\ locals.index + 2 <= Len(parts)
              /\ IsEqualPart(NextPart))
                => /\ locals'.index = locals.index + 1
                   /\ EmittedTypes \subseteq { "removed", "delete" }
          /\ (/\ LoopStep(v)
              /\ CurPart.added
              /\ locals.index >= 1
              /\ IsEqualPart(parts[locals.index]))
                => /\ locals'.index = locals.index + 1
                   /\ EmittedTypes \subseteq { "added", "insert" }]_vars

\* The types of the lines or segments of both sides of a result.
ResultTypes ==
    IF variant = "computeInlineDiff"
    THEN { result.left[k].type : k \in 1..Len(result.left) }
         \cup { result.right[k].type : k \in 1..Len(result.right) }
    ELSE { result.original[k].type : k \in 1..Len(result.original) }
         \cup { result.modified[k].type : k \in 1..Len(result.modified) }

\* computeDiff has returned from a removed run, an equal run and an added run,
\* none of them empty, with removed and added lines in its result.
C4_Witness ==
    /\ Returned("computeDiff")
    /\ Len(parts) = 3
    /\ parts[1].removed /\ IsEqualPart(parts[2]) /\ parts[3].added
    /\ \A k \in 1..3 : parts[k].value # <<>>
    /\ ResultTypes = { "removed", "unchanged", "added" }

RECURSIVE SumOfPairMax(_, _)
\* The sum of max(r, a) over the removed runs of r lines that an added run of
\* a lines immediately follows, from part i on.
SumOfPairMax(ps, i) ==
    IF i > Len(ps) THEN 0
    ELSE IF ps[i].removed /\ i < Len(ps) /\ ps[i + 1].added
    THEN Max(LineCount(ps[i].value), LineCount(ps[i + 1].value)) + SumOfPairMax(ps, i + 2)
    ELSE SumOfPairMax(ps, i + 1)

\* C5: the modifications statistic of computeDiff is the sum of max(r, a) over
\* the paired removed/added blocks.
C5_ModificationsSumOfMax ==
    Returned("computeDiff") =>
        result.stats.modifications = SumOfPairMax(parts, 1)

\* computeDiff has returned from parts with a paired block of unequal runs.
C5_Witness ==
    /\ Returned("computeDiff")
    /\ \E i \in 1..(Len(parts) - 1) :
          /\ parts[i].removed /\ parts[i + 1].added
          /\ LineCount(parts[i].value) # LineCount(parts[i + 1].value)
    /\ result.stats.modifications >= 2

\* C6: in the results of computeDiff and computeInlineDiff, additions is the
\* number of added lines of the modified side and deletions the number of
\* removed lines of the original side.
C6_StatsCountLines ==
    /\ Returned("computeDiff") =>
          /\ result.stats.additions = CountType(result.modified, "added")
          /\ result.stats.deletions = CountType(result.original, "removed")
    /\ Returned("computeInlineDiff") =>
          /\ result.stats.additions = CountType(result.right, "added")
          /\ result.stats.deletions = CountType(result.left, "removed")

\* A result of computeDiff with at least two deletions and an addition.
C6_Witness ==
    /\ Returned("computeDiff")
    /\ result.stats.deletions >= 2
    /\ result.stats.additions >= 1

LinesForCurPart ==
    IF variant = "computeDiff"
    THEN IF CurPart.added
         THEN { Len(locals'.modifiedLines) - Len(locals.modifiedLines) }
         ELSE IF CurPart.removed
         THEN { Len(locals'.originalLines) - Len(locals.originalLines) }
         ELSE { Len(locals'.originalLines) - Len(locals.originalLines),
                Len(locals'.modifiedLines) - Len(locals.modifiedLines) }
    ELSE IF variant = "computeInlineDiff"
    THEN IF CurPart.added
         THEN { Len(locals'.rightLines) - Len(locals.rightLines) }
         ELSE IF CurPart.removed
         THEN { Len(locals'.leftLines) - Len(locals.leftLines) }
         ELSE { Len(locals'.leftLines) - Len(locals.leftLines),
                Len(locals'.rightLines) - Len(locals.rightLines) }
    ELSE { Len(locals'.lines) - Len(locals.lines) }

EndsWithLF(value) == Len(value) > 0 /\ value[Len(value)] = LF

\* C8: in computeDiff, computeInlineDiff and the unified diffLines, a step at
\* a run of n lines whose text ends with a terminator appends n lines for it.
C8_NoTrailingPhantomLine ==
    [][\A v \in LineVariants :
          (LoopStep(v) /\ EndsWithLF(CurPart.value))
             => LinesForCurPart = { LineCount(CurPart.value) }]_vars

\* C9: for two equal texts computeDiff returns zero statistics and two equal
\* sides of unchanged lines.
C9_EqualTextsUnchanged ==
    (Returned("computeDiff") /\ original = modified) =>
        /\ result.stats = [additions |-> 0, deletions |-> 0, modifications |-> 0]
        /\ \A k \in 1..Len(result.original) : result.original[k].type = "unchanged"
        /\ \A k \in 1..Len(result.modified) : result.modified[k].type = "unchanged"
        /\ Len(result.original) = Len(result.modified)
        /\ \A k \in 1..Len(result.original) :
              /\ result.original[k].content = result.modified[k].content
              /\ result.original[k].lineNumber = result.modified[k].lineNumber

\* computeDiff has returned three lines from two equal texts.
C9_Witness ==
    /\ Returned("computeDiff")
    /\ original = modified
    /\ Len(result.original) = 3

\* C10: for two empty texts computeDiff returns two empty sequences and zero
\* statistics without a call of the diff primitive.
C10_EmptyFastPath ==
    (Returned("computeDiff") /\ original = <<>> /\ modified = <<>>) =>
        /\ result.original = <<>>
        /\ result.modified = <<>>
        /\ result.stats = [additions |-> 0, deletions |-> 0, modifications |-> 0]
        /\ diffCalls = 0

\* computeDiff has returned from two empty texts.
C10_Witness ==
    /\ Returned("computeDiff")
    /\ original = <<>> /\ modified = <<>>

\* C11: computeDiff on an empty original and a modified text of n >= 1 lines
\* returns statistics {additions: n, deletions: 0, modifications: 0}, n lines
\* of type 'added' numbered 1..n on the modified side and n rows without a
\* line number on the original side; and the same with 'removed', deletions
\* and the sides exchanged for an empty modified text.
C11_OneSideEmpty ==
    /\ (Returned("computeDiff") /\ original = <<>> /\ modified # <<>>) =>
          /\ result.stats = [additions |-> LineCount(modified), deletions |-> 0,
                             modifications |-> 0]
          /\ Len(result.modified) = LineCount(modified)
          /\ \A k \in 1..Len(result.modified) :
                /\ result.modified[k].type = "added"
                /\ result.modified[k].lineNumber = Num(k)
          /\ Len(result.original) = LineCount(modified)
          /\ \A k \in 1..Len(result.original) :
                result.original[k].lineNumber = Null
    /\ (Returned("computeDiff") /\ modified = <<>> /\ original # <<>>) =>
          /\ result.stats = [additions |-> 0, deletions |-> LineCount(original),
                             modifications |-> 0]
          /\ Len(result.original) = LineCount(original)
          /\ \A k \in 1..Len(result.original) :
                /\ result.original[k].type = "removed"
                /\ result.original[k].lineNumber = Num(k)
          /\ Len(result.modified) = LineCount(original)
          /\ \A k \in 1..Len(result.modified) :
                result.modified[k].lineNumber = Null

\* computeDiff has returned for an empty original and a modified text of
\* several lines.
C11_Witness ==
    /\ Returned("computeDiff")
    /\ original = <<>>
    /\ LineCount(modified) >= 2
    /\ Len(result.original) = LineCount(modified)

\* C12: two texts that differ only in using CRLF or LF as line terminator
\* give a computeDiff result in which every line is 'unchanged' and every
\* statistic is zero.
C12_TerminatorsNormalizedBeforeCompare ==
    (/\ Returned("computeDiff")
     /\ original # modified
     /\ ReplaceCRLF(original) = ReplaceCRLF(modified))
        => /\ result.stats = [additions |-> 0, deletions |-> 0, modifications |-> 0]
           /\ \A k \in 1..Len(result.original) : result.original[k].type = "unchanged"
           /\ \A k \in 1..Len(result.modified) : result.modified[k].type = "unchanged"

\* C13: splitIntoLines returns the empty sequence exactly for the empty
\* string; every other string, a lone terminator included, gives at least
\* one unit.
C13_EmptyIffEmptyInput ==
    Returned("splitIntoLines") => (result.lines = <<>> <=> args.value = <<>>)

\* splitIntoLines has returned one unit for a string that is only a
\* terminator.
C13_Witness ==
    /\ Returned("splitIntoLines")
    /\ args.value \in { <<LF>>, <<CR, LF>> }
    /\ result.lines = << <<>> >>

\* The ways a character may stand in escaped markup: the characters <, > and
\* & only as their entity, a quote as itself or as its entity, any other
\* character as itself.
EscapedForms(ch) ==
    IF ch = "&" THEN { AmpEntity }
    ELSE IF ch = "<" THEN { LtEntity }
    ELSE IF ch = ">" THEN { GtEntity }
    ELSE IF ch = "\"" THEN { <<ch>>, QuotEntity }
    ELSE IF ch = "'" THEN { <<ch>>, AposEntity }
    ELSE { <<ch>> }

RECURSIVE IsEscapedText(_, _)
\* html is text with each of its characters in one of its escaped forms.
IsEscapedText(html, text) ==
    IF Len(text) = 0 THEN Len(html) = 0
    ELSE \E form \in EscapedForms(text[1]) :
            /\ Len(html) >= Len(form)
            /\ SubSeq(html, 1, Len(form)) = form
            /\ IsEscapedText(SubSeq(html, Len(form) + 1, Len(html)), Tail(text))

\* C14: when the external highlighter throws on a non-empty text, each
\* highlight function returns (the error does not escape) the escaped raw
\* text: no '<', '>' or '&' of the input stands unescaped in the markup.
C14_ThrowFallsBackToEscapedText ==
    (/\ variant \in HighlightFunctions
     /\ pc = "done"
     /\ args.code # <<>>
     /\ args.throws)
        => /\ result.returned
           /\ IsEscapedText(result.html, args.code)

TokenTypes(tokens) == { tokens[k].type : k \in 1..Len(tokens) }

\* C15: whatever the word diff primitive returns, the tokens computeInlineDiff
\* gives a left line hold no 'addition' and the tokens it gives a right line
\* hold no 'deletion'.
C15_NoForeignTokenType ==
    Returned("buildTokens") =>
        /\ args.side = "left" => "addition" \notin TokenTypes(result.tokens)
        /\ args.side = "right" => "deletion" \notin TokenTypes(result.tokens)

\* The tokens of the left line of a modified pair are built from a word diff
\* that holds an added part and a removed part.
C15_Witness ==
    /\ Returned("buildTokens")
    /\ args.lineType = "modified" /\ args.side = "left"
    /\ \E k \in 1..Len(parts) : parts[k].added
    /\ \E k \in 1..Len(parts) : parts[k].removed
    /\ "deletion" \in TokenTypes(result.tokens)

RECURSIVE TokenValues(_)
\* The value fields of the tokens, concatenated in order.
TokenValues(tokens) ==
    IF Len(tokens) = 0 THEN <<>>
    ELSE tokens[1].value \o TokenValues(Tail(tokens))

\* The reconstruction guarantee of the word diff: the parts that are not
\* added rebuild the left string, the parts that are not removed the right.
Reconstructs(wordDiff, leftContent, rightContent) ==
    /\ SideText(wordDiff, "a") = leftContent
    /\ SideText(wordDiff, "r") = rightContent

\* C16: the values of the tokens of a line, concatenated in order, are the
\* line's text, provided the word diff of a modified line rebuilds the two
\* strings it was given.
C16_TokensRebuildLine ==
    (/\ Returned("buildTokens")
     /\ args.lineType = "modified"
           => Reconstructs(parts, args.leftContent, args.rightContent))
        => TokenValues(result.tokens) =
              (IF args.side = "left" THEN args.leftContent ELSE args.rightContent)

\* The tokens of a modified left line of two words, built from a word diff
\* of two parts that rebuilds both strings.
C16_Witness ==
    /\ Returned("buildTokens")
    /\ args.lineType = "modified" /\ args.side = "left"
    /\ args.leftContent = <<"a", " ", "b">> /\ args.rightContent = <<"a">>
    /\ Len(parts) = 2
    /\ Reconstructs(parts, args.leftContent, args.rightContent)
    /\ Len(result.tokens) = 2

\* C17: when the last thing the user did to a pane is to activate its Clear
\* control and no debounce timer is pending any more, the pane is empty: its
\* React text state is '' and, once the editor has mounted, so is its Monaco
\* text model.
C17_ClearEmptiesPane ==
    \A side \in Sides :
        (/\ variant = "MonacoDiff"
         /\ lastInput[side] = "clear"
         /\ timeoutRef = NoTimeout)
            => /\ TextOf(side) = ""
               /\ mounted => ModelOf(side) = ""

\* The variants that emit lines and pair a removed run with the added run
\* that follows it.
PairingLineVariants == { "computeDiff", "computeInlineDiff" }

\* The part the loop is at is a removed part that an added part follows.
AtRemovedThenAdded ==
    /\ CurPart.removed
    /\ locals.index + 2 <= Len(parts)
    /\ NextPart.added

\* C18: in computeDiff and computeInlineDiff a step consumes two runs exactly
\* when it is at a removed run that an added run follows, and one run
\* otherwise, so no run is in two pairs; an added run that follows the added
\* member of such a pair is consumed alone and emits only 'added' lines.
C18_OneToOnePairing ==
    [][\A v \in PairingLineVariants :
          LoopStep(v) =>
            /\ locals'.index \in { locals.index + 1, locals.index + 2 }
            /\ locals'.index = locals.index + 2 <=> AtRemovedThenAdded
            /\ (/\ CurPart.added
                /\ locals.index >= 2
                /\ parts[locals.index].added
                /\ parts[locals.index - 1].removed)
                  => /\ locals'.index = locals.index + 1
                     /\ EmittedTypes = { "added" }]_vars

\* computeInlineDiff has returned from a removed run and two added runs of
\* the same value: the right side holds the modified lines of the first
\* added run, then the added lines of the second.
C18_Witness ==
    /\ Returned("computeInlineDiff")
    /\ Len(parts) = 3
    /\ parts[1].removed /\ parts[2].added /\ parts[3].added
    /\ \A k \in 1..3 : parts[k].value = <<"a", LF>>
    /\ TypesOf(result.left) = << "modified", "modified" >>
    /\ TypesOf(result.right) = << "modified", "modified", "added", "added" >>

RECURSIVE TextsOfType(_, _)
\* The texts of the lines of computeInlineDiff whose type is type, in order.
TextsOfType(lines, type) ==
    IF Len(lines) = 0 THEN <<>>
    ELSE (IF lines[1].type = type THEN <<lines[1].text>> ELSE <<>>)
         \o TextsOfType(Tail(lines), type)

\* C19: in the results of computeDiff and computeInlineDiff the unchanged
\* lines of the original side and the unchanged lines of the modified side
\* are as many and hold the same content position by position.
C19_UnchangedInLockStep ==
    /\ Returned("computeDiff") =>
          ContentsOfTypes(result.original, { "unchanged" })
             = ContentsOfTypes(result.modified, { "unchanged" })
    /\ Returned("computeInlineDiff") =>
          TextsOfType(result.left, "unchanged") = TextsOfType(result.right, "unchanged")

\* computeInlineDiff has returned two unchanged lines on each side and a
\* line of another type.
C19_Witness ==
    /\ Returned("computeInlineDiff")
    /\ Len(TextsOfType(result.left, "unchanged")) >= 2
    /\ Len(TextsOfType(result.right, "unchanged")) >= 2
    /\ ResultTypes # { "unchanged" }

\* C20: the loops of computeDiff and computeInlineDiff go forward only and
\* end within as many steps as there are runs: a step leaves the runs as they
\* are and moves the index past the run it is at, and past the next one
\* exactly when the two are a removed run and the added run after it; the
\* index never passes the number of runs; and the function returns when, and
\* only when, the index has reached the number of runs.
C20_SingleForwardPass ==
    /\ [][\A v \in PairingLineVariants :
             /\ LoopStep(v) =>
                   /\ parts' = parts
                   /\ pc' = "loop"
                   /\ locals'.index =
                         locals.index + (IF AtRemovedThenAdded THEN 2 ELSE 1)
             /\ (variant = v /\ pc = "loop" /\ pc' = "done") =>
                   /\ locals.index = Len(parts)
                   /\ locals' = locals]_vars
    /\ [](variant \in PairingLineVariants => locals.index <= Len(parts))

\* computeDiff has returned after going through three runs in two steps, a
\* pair and a run alone.
C20_Witness ==
    /\ Returned("computeDiff")
    /\ Len(parts) = 3
    /\ locals.index = 3
    /\ parts[2].removed /\ parts[3].added
    /\ Len(result.original) > 0

\* C21: the modifications statistic of computeInlineDiff is the larger of
\* the numbers of 'modified' lines of the left side and of the right side,
\* and the two numbers are equal.
C21_InlineModifications ==
    Returned("computeInlineDiff") =>
        LET leftModified == Len(TextsOfType(result.left, "modified"))
            rightModified == Len(TextsOfType(result.right, "modified"))
        IN  /\ leftModified = rightModified
            /\ result.stats.modifications =
                  (IF leftModified >= rightModified THEN leftModified
                   ELSE rightModified)

\* computeInlineDiff has returned modified lines and, from a pair of runs of
\* unequal length, a removed or an added line.
C21_Witness ==
    /\ Returned("computeInlineDiff")
    /\ result.stats.modifications >= 2
    /\ result.stats.additions + result.stats.deletions >= 1
    /\ \E i \in 1..(Len(parts) - 1) : parts[i].removed /\ parts[i + 1].added

RECURSIVE RowNumbers(_, _)
\* The non-null line numbers of one side ("left" or "right") of the rows of
\* the unified list, in row order.
RowNumbers(rows, side) ==
    IF Len(rows) = 0 THEN <<>>
    ELSE (IF side = "left" THEN rows[1].leftLineNumber ELSE rows[1].rightLineNumber)
         \o RowNumbers(Tail(rows), side)

\* The rows of the unified list whose type is type.
RowsOfType(rows, type) == { k \in 1..Len(rows) : rows[k].type = type }

\* C22: in the unified diffLines list a row has no left line number exactly
\* when it is 'added' and no right line number exactly when it is 'removed';
\* the left line numbers that are there count 1..N in row order and the
\* right ones 1..M; additions and deletions are the numbers of 'added' and
\* 'removed' rows.
C22_UnifiedRows ==
    Returned("diffLines") =>
        /\ \A k \in 1..Len(result.diffLines) :
              /\ result.diffLines[k].leftLineNumber = Null
                    <=> result.diffLines[k].type = "added"
              /\ result.diffLines[k].rightLineNumber = Null
                    <=> result.diffLines[k].type = "removed"
        /\ CountsFromOne(RowNumbers(result.diffLines, "left"))
        /\ CountsFromOne(RowNumbers(result.diffLines, "right"))
        /\ result.stats.additions = Cardinality(RowsOfType(result.diffLines, "added"))
        /\ result.stats.deletions = Cardinality(RowsOfType(result.diffLines, "removed"))

\* The unified list holds a removed row, an added row and an unchanged row
\* after them.
C22_Witness ==
    /\ Returned("diffLines")
    /\ \E i, j, k \in 1..Len(result.diffLines) :
          /\ i < k /\ j < k
          /\ result.diffLines[i].type = "removed"
          /\ result.diffLines[j].type = "added"
          /\ result.diffLines[k].type = "unchanged"

\* C23: a change of the selected language or of the view mode leaves the
\* classified lines (types, contents, line numbers) and the statistics as
\* they are, and the classifier does not run again.
C23_SettingsLeaveResult ==
    [][(language' # language \/ viewMode' # viewMode)
          => /\ result' = result
             /\ pc' = "done"
             /\ diffCalls' = diffCalls]_vars

\* The unified variant shows a result with rows after both the language and
\* the view mode were changed.
C23_Witness ==
    /\ Returned("diffLines")
    /\ language # "javascript"
    /\ viewMode = "unified"
    /\ Len(result.diffLines) >= 2

\* C24: once stickyLanguage is not 'plaintext' no step changes it; while it
\* is 'plaintext', a step that changes leftLang or rightLang sets it to
\* langMap of rightLang if rightLang is not 'plaintext', of leftLang
\* otherwise.
C24_StickyLanguage ==
    [][/\ stickyLanguage # "plaintext" => stickyLanguage' = stickyLanguage
       /\ (/\ stickyLanguage = "plaintext"
           /\ <<originalLang', modifiedLang'>> # <<originalLang, modifiedLang>>)
             => stickyLanguage' =
                   langMap[IF modifiedLang' # "plaintext" THEN modifiedLang'
                           ELSE originalLang']]_vars

\* stickyLanguage still holds the language it took from an XML text while
\* the two detected languages are now others.
C24_Witness ==
    /\ variant = "MonacoDiff"
    /\ stickyLanguage = "html"
    /\ originalLang = "javascript"
    /\ modifiedLang = "tsx"

\* C25: no content change is lost because of a change on the other side:
\* once no timer is pending (everything typed has had its callback run or
\* cancelled) and no Clear button is the last input of a pane, the text
\* states from which the statistics are computed equal the contents of the
\* two editor models.
C25_StateFollowsModels ==
    (/\ variant = "MonacoDiff" /\ mounted
     /\ timeoutRef = NoTimeout
     /\ \A side \in Sides : lastInput[side] # "clear")
        => /\ originalText = originalModel
           /\ modifiedText = modifiedModel

\* C26: computeDiff returns an aligned layout: the original and the modified
\* sequence have the same length, and a row that exists on one side only
\* (a numbered 'added' row on the modified side, a numbered 'removed' row on
\* the original side) faces a null-numbered placeholder of the same type at
\* the same index of the other side.
C26_AlignedLayout ==
    Returned("computeDiff") =>
        /\ Len(result.original) = Len(result.modified)
        /\ \A k \in 1..Len(result.modified) :
              (result.modified[k].type = "added"
               /\ result.modified[k].lineNumber # Null)
                 => /\ k <= Len(result.original)
                    /\ result.original[k].type = "added"
                    /\ result.original[k].lineNumber = Null
        /\ \A k \in 1..Len(result.original) :
              (result.original[k].type = "removed"
               /\ result.original[k].lineNumber # Null)
                 => /\ k <= Len(result.modified)
                    /\ result.modified[k].type = "removed"
                    /\ result.modified[k].lineNumber = Null

RECURSIVE SegmentsText(_)
\* The values of a sequence of segments, joined in order.
SegmentsText(segments) ==
    IF Len(segments) = 0 THEN <<>>
    ELSE segments[1].value \o SegmentsText(Tail(segments))

SegmentsOfType(segments, type) ==
    SelectSeq(segments, LAMBDA segment : segment.type = type)

\* C28: in the output of computeDiffSegments 'insert' segments are on the
\* modified side only and 'delete' segments on the original side only, both
\* sides have the same number of 'modify' segments, the 'equal' segments of
\* the two sides are the same sequence, and no segment has an empty value.
C28_SegmentTypesBySide ==
    Returned("computeDiffSegments") =>
        /\ SegmentsOfType(result.original, "insert") = <<>>
        /\ SegmentsOfType(result.modified, "delete") = <<>>
        /\ Len(SegmentsOfType(result.original, "modify"))
             = Len(SegmentsOfType(result.modified, "modify"))
        /\ SegmentsOfType(result.original, "equal")
             = SegmentsOfType(result.modified, "equal")
        /\ \A k \in 1..Len(result.original) : result.original[k].value # <<>>
        /\ \A k \in 1..Len(result.modified) : result.modified[k].value # <<>>

\* computeDiffSegments has returned a 'modify' pair followed by an 'insert'
\* segment.
C28_Witness ==
    /\ Returned("computeDiffSegments")
    /\ Len(result.original) = 1 /\ result.original[1].type = "modify"
    /\ Len(result.modified) = 2
    /\ result.modified[1].type = "modify"
    /\ result.modified[2].type = "insert"
    /\ result.modified[1].value # result.original[1].value

\* C29: indent followed by outdent is a round trip: after Tab and then
\* Shift+Tab on a selection that is not empty, the text and the selection
\* are the ones before the two keys.
C29_IndentOutdentRoundTrip ==
    (variant = "EditorPane" /\ pc = "Tab, ShiftTab" /\ args.selStart < args.selEnd)
        => /\ result.value = args.value
           /\ result.selStart = args.selStart
           /\ result.selEnd = args.selEnd

\* The number of the line of text that holds the caret at selStart, counted
\* from 1: one more than the number of line feeds before the caret.
CaretLine(text, selStart) ==
    1 + Cardinality({ k \in 1..selStart : text[k] = LF })

\* The line as it is and the line without the one indent unit it starts
\* with, two spaces or a tab.
Outdented(line) ==
    { line }
    \cup (IF Len(line) >= 2 /\ line[1] = " " /\ line[2] = " "
          THEN { SubSeq(line, 3, Len(line)) } ELSE {})
    \cup (IF Len(line) >= 1 /\ line[1] = TAB THEN { Tail(line) } ELSE {})

\* C30: Shift+Tab with an empty selection removes at most one indent unit
\* (two spaces or one tab) from the start of the line that holds the caret
\* and leaves every other line of the text as it was, at every caret
\* position.
C30_ShiftTabOneLine ==
    (variant = "EditorPane" /\ pc = "ShiftTab" /\ args.selStart = args.selEnd)
        => LET before == Split(args.value)
               after == Split(result.value)
               line == CaretLine(args.value, args.selStart)
           IN  /\ Len(after) = Len(before)
               /\ \A k \in 1..Len(before) :
                     IF k = line THEN after[k] \in Outdented(before[k])
                     ELSE after[k] = before[k]

====
